---------------------------- MODULE Spec2Model ----------------------------
(***************************************************************************)
(* Model of the Cortex-M3 hard fault reporter of src/src/fault_handler.c.  *)
(*                                                                         *)
(* Hard_Fault_Handler prints a banner, the Hard Fault Status Register,     *)
(* (when the fault was forced) the Configurable Fault Status Register and  *)
(* one block per fault category, then the stacked register frame and a     *)
(* trailer, and finally spins forever.                                     *)
(*                                                                         *)
(* A 32-bit word is modelled as the set of its set bit positions (0..31),  *)
(* so that bit 31 and the bitwise operators are exact.  A message is a     *)
(* string, built character by character by the sprintf conversions.        *)
(* The SCB registers are volatile: every SCB->X in the source is a read of *)
(* the hardware, recorded in the trace, and the hardware may set further   *)
(* status bits between two reads.                                          *)
(*                                                                         *)
(* The assembly trampoline HardFault_Handler, which picks MSP or PSP and   *)
(* branches to Hard_Fault_Handler, is not modelled: the model starts with  *)
(* the frame it passes.                                                    *)
(***************************************************************************)
EXTENDS Naturals, Sequences, FiniteSets

VARIABLES
    line,      \* source line the handler is about to execute
    SCB,       \* the memory mapped registers HFSR, CFSR, MMFAR, BFAR
    stack,     \* the fault frame handed to Hard_Fault_Handler (8 words)
    compiler,  \* "__CC_ARM" or "__ICCARM__" (selects the BKPT of line 115)
    trace      \* what the handler has done so far, in program order: the
               \* messages printed, the SCB registers read, the sprintf calls

vars == <<line, SCB, stack, compiler, trace>>

---------------------------------------------------------------------------
(* 32-bit words as sets of bit positions *)

Bits16(n, base) ==
    {base + b : b \in {c \in 0..15 : (n \div (2 ^ c)) % 2 = 1}}

\* the uint32_t whose upper half-word is hi and lower half-word is lo
U32(hi, lo) ==
    Bits16(hi, 16) \cup Bits16(lo, 0)

Zero ==
    {}

\* a & b
And(a, b) ==
    a \cap b

\* a | b
Or(a, b) ==
    a \cup b

\* value of hex digit i (0 = least significant) of w
Nibble(w, i) ==
    LET b(k) == IF (4 * i + k) \in w THEN 2 ^ k ELSE 0
    IN  b(0) + b(1) + b(2) + b(3)

\* number of hex digits of w without leading zeros (0 for the value 0)
NumDigits(w) ==
    Cardinality({i \in 0..7 : \E b \in w : b >= 4 * i})

Max2(a, b) ==
    IF a >= b THEN a ELSE b

LowerDigits ==
    <<"0", "1", "2", "3", "4", "5", "6", "7",
      "8", "9", "a", "b", "c", "d", "e", "f">>

UpperDigits ==
    <<"0", "1", "2", "3", "4", "5", "6", "7",
      "8", "9", "A", "B", "C", "D", "E", "F">>

\* the n low hex digits of w (n <= 8), most significant first
HexStr(w, n, digits) ==
    LET D(i) == IF i < n THEN digits[Nibble(w, i) + 1] ELSE ""
    IN  D(7) \o D(6) \o D(5) \o D(4) \o D(3) \o D(2) \o D(1) \o D(0)

\* printf "%08x": lower case, at least one digit (the default precision),
\* zero padded to width 8
Fmt_08x(w) ==
    HexStr(w, Max2(8, Max2(1, NumDigits(w))), LowerDigits)

\* printf "%.2X": upper case, precision 2 (at least two digits)
Fmt_p2X(w) ==
    HexStr(w, Max2(2, NumDigits(w)), UpperDigits)

\* printf "%.8X": upper case, precision 8 (at least eight digits)
Fmt_p8X(w) ==
    HexStr(w, Max2(8, NumDigits(w)), UpperDigits)

---------------------------------------------------------------------------
(* Bit definitions for the SCB_CFSR register *)

SCB_CFSR_IACCVIOL    == U32(\h0000, \h0001)
SCB_CFSR_DACCVIOL    == U32(\h0000, \h0002)
SCB_CFSR_MUNSTKERR   == U32(\h0000, \h0008)
SCB_CFSR_MSTKERR     == U32(\h0000, \h0010)
SCB_CFSR_MMARVALID   == U32(\h0000, \h0080)
SCB_CFSR_IBUSERR     == U32(\h0000, \h0100)
SCB_CFSR_PRECISERR   == U32(\h0000, \h0200)
SCB_CFSR_IMPRECISERR == U32(\h0000, \h0400)
\* a slip that would give the bus flag the value of SCB_CFSR_MUNSTKERR
SCB_CFSR_UNSTKERR_Mem == U32(\h0000, \h0008)
SCB_CFSR_UNSTKERR    == U32(\h0000, \h0800)
SCB_CFSR_STKERR      == U32(\h0000, \h1000)
SCB_CFSR_BFARVALID   == U32(\h0000, \h8000)
SCB_CFSR_UNDEFINSTR  == U32(\h0001, \h0000)
SCB_CFSR_INVSTATE    == U32(\h0002, \h0000)
SCB_CFSR_INVPC       == U32(\h0004, \h0000)
SCB_CFSR_NOCP        == U32(\h0008, \h0000)
SCB_CFSR_UNALIGNED   == U32(\h0100, \h0000)
SCB_CFSR_DIVBYZERO   == U32(\h0200, \h0000)

\* (1 << 30), the FORCED bit tested on SCB->HFSR
HFSR_FORCED          == U32(\h4000, \h0000)
\* a slip that would gate the usage category on its named flags only
UsageMask_NamedOnly  == U32(\h030F, \h0000)
\* 0xFFFF0000, 0xFF00 and 0xFF, the literals gating the three categories
UsageMask            == U32(\hFFFF, \h0000)
BusMask              == U32(\h0000, \hFF00)
MemMask              == U32(\h0000, \h00FF)

\* enum { r0, r1, r2, r3, r12, lr, pc, psr }
r0  == 0
r1  == 1
r2  == 2
r3  == 3
r12 == 4
lr  == 5
pc  == 6
psr == 7

\* stack[i] of the C array (TLA+ sequences are indexed from 1)
Elem(frame, i) ==
    frame[i + 1]

\* sizes of the formatting buffers
MsgSize == 80
StrSize == 200

---------------------------------------------------------------------------
(* What a function does: the sequence, in program order, of the messages   *)
(* it prints, the registers it reads and the buffers it formats            *)

NoEffect ==
    <<>>

\* e1 ; e2
Then(e1, e2) ==
    e1 \o e2

\* printErrorMsg(errMsg): printf("%s", errMsg) hands the message to the sink
printErrorMsg(errMsg) ==
    <<[k |-> "print", msg |-> errMsg]>>

\* sprintf(buf, ...) producing text, followed by printErrorMsg(buf);
\* sprintf stores Len(text) characters and a terminating NUL into buf
sprintfPrint(buf, size, text) ==
    <<[k |-> "sprintf", buf |-> buf, size |-> size, len |-> Len(text)],
      [k |-> "print", msg |-> text]>>

\* the evaluation of SCB->reg at source line ln, which yielded val
Read(reg, ln, val) ==
    <<[k |-> "read", reg |-> reg, line |-> ln, val |-> val]>>

\* if (cond) { printErrorMsg(msg); }
IfPrint(cond, msg) ==
    IF cond THEN printErrorMsg(msg) ELSE NoEffect

---------------------------------------------------------------------------
(* The reporting functions *)

\* a slip that would chain the tests with else-if: only the first flag set
\* is reported
printUsageErrorMsg_FirstOnly(CFSRValue) ==
    Then(printErrorMsg("Usage fault: "),
         IF And(CFSRValue, SCB_CFSR_DIVBYZERO) # Zero
         THEN printErrorMsg("Divide by zero\n")
         ELSE IF And(CFSRValue, SCB_CFSR_INVSTATE) # Zero
         THEN printErrorMsg("Invalid combination of EPSR and instruction,\nsuch as calling a null pointer function\n")
         ELSE IF And(CFSRValue, SCB_CFSR_UNDEFINSTR) # Zero
         THEN printErrorMsg("The processor attempted to excecute an undefined instruction\n")
         ELSE IF And(CFSRValue, SCB_CFSR_INVPC) # Zero
         THEN printErrorMsg("Attempt to load EXC_RETURN into pc illegally\n")
         ELSE IF And(CFSRValue, SCB_CFSR_NOCP) # Zero
         THEN printErrorMsg("Attempt to use a coprocessor instruction\n")
         ELSE IfPrint(And(CFSRValue, SCB_CFSR_UNALIGNED) # Zero,
                      "Attempt to make an unaligned memory access\n"))

printUsageErrorMsg(CFSRValue) ==
    Then(printErrorMsg("Usage fault: "),
    Then(IfPrint(And(CFSRValue, SCB_CFSR_DIVBYZERO) # Zero,
                 "Divide by zero\n"),
    Then(IfPrint(And(CFSRValue, SCB_CFSR_INVSTATE) # Zero,
                 "Invalid combination of EPSR and instruction,\nsuch as calling a null pointer function\n"),
    Then(IfPrint(And(CFSRValue, SCB_CFSR_UNDEFINSTR) # Zero,
                 "The processor attempted to excecute an undefined instruction\n"),
    Then(IfPrint(And(CFSRValue, SCB_CFSR_INVPC) # Zero,
                 "Attempt to load EXC_RETURN into pc illegally\n"),
    Then(IfPrint(And(CFSRValue, SCB_CFSR_NOCP) # Zero,
                 "Attempt to use a coprocessor instruction\n"),
         IfPrint(And(CFSRValue, SCB_CFSR_UNALIGNED) # Zero,
                 "Attempt to make an unaligned memory access\n")))))))

\* a slip that would print the address register whatever the flag says
printBusFaultAddress_Always(CFSRValue, BFAR) ==
    Then(Read("BFAR", 203, BFAR),
         sprintfPrint("printBusFaultErrorMsg.str", StrSize,
             "Bus Fault Address Register address valid flag\nBFAR value = 0x"
             \o Fmt_p8X(BFAR) \o "\n"))

\* lines 202-205 of printBusFaultErrorMsg: SCB->BFAR is read and printed only
\* under BFARVALID
printBusFaultAddress(CFSRValue, BFAR) ==
    IF And(CFSRValue, SCB_CFSR_BFARVALID) # Zero
    THEN Then(Read("BFAR", 203, BFAR),
              sprintfPrint("printBusFaultErrorMsg.str", StrSize,
                  "Bus Fault Address Register address valid flag\nBFAR value = 0x"
                  \o Fmt_p8X(BFAR) \o "\n"))
    ELSE NoEffect

\* BFAR is the content of SCB->BFAR at the time of the call
printBusFaultErrorMsg(CFSRValue, BFAR) ==
    LET masked == And(CFSRValue, BusMask)
    IN  Then(printErrorMsg("Bus fault: "),
        Then(sprintfPrint("printBusFaultErrorMsg.str", StrSize,
                          Fmt_p2X(masked) \o "\n"),
        Then(IfPrint(And(masked, SCB_CFSR_IBUSERR) # Zero,
                     "Instruction bus error\n"),
        Then(IfPrint(And(masked, SCB_CFSR_PRECISERR) # Zero,
                     "Precise data bus error\n"),
        Then(IfPrint(And(masked, SCB_CFSR_IMPRECISERR) # Zero,
                     "Imprecise data bus error\n"),
        Then(IfPrint(And(masked, SCB_CFSR_UNSTKERR) # Zero,
                     "Unstacking error\n"),
        Then(IfPrint(And(masked, SCB_CFSR_STKERR) # Zero,
                     "Stacking error\n"),
             printBusFaultAddress(masked, BFAR))))))))

\* lines 235-238 of printMemoryManagementErrorMsg: SCB->MMFAR is read and
\* printed only under MMARVALID
printMemoryManagementAddress(CFSRValue, MMFAR) ==
    IF And(CFSRValue, SCB_CFSR_MMARVALID) # Zero
    THEN Then(Read("MMFAR", 236, MMFAR),
              sprintfPrint("printMemoryManagementErrorMsg.str", StrSize,
                  "Memory Manage Address Register address valid flag\nMMFAR value = 0x"
                  \o Fmt_p8X(MMFAR) \o "\n"))
    ELSE NoEffect

\* MMFAR is the content of SCB->MMFAR at the time of the call
printMemoryManagementErrorMsg(CFSRValue, MMFAR) ==
    LET masked == And(CFSRValue, MemMask)
    IN  Then(printErrorMsg("Memory Management (MPU) fault: "),
        Then(sprintfPrint("printMemoryManagementErrorMsg.str", StrSize,
                          Fmt_p2X(masked) \o "\n"),
        Then(IfPrint(And(masked, SCB_CFSR_IACCVIOL) # Zero,
                     "Instruction access violation\n"),
        Then(IfPrint(And(masked, SCB_CFSR_DACCVIOL) # Zero,
                     "Data access violation\n"),
        Then(IfPrint(And(masked, SCB_CFSR_MUNSTKERR) # Zero,
                     "Unstacking error\n"),
        Then(IfPrint(And(masked, SCB_CFSR_MSTKERR) # Zero,
                     "Stacking error\n"),
             printMemoryManagementAddress(masked, MMFAR)))))))

\* a slip that would test the link register instead of the program counter
code_address_error_TestLr(frame) ==
    IF Elem(frame, lr) = Zero THEN Elem(frame, lr) ELSE Elem(frame, pc)

\* int code_address_error of DumpStack: the uint32_t is stored in an int and
\* printed with %x, which shows the same 32 bits
code_address_error(frame) ==
    IF Elem(frame, pc) = Zero THEN Elem(frame, lr) ELSE Elem(frame, pc)

\* a slip that would format the whole trailer with one sprintf
DumpStackTrailer_OneSprintf(frame) ==
    sprintfPrint("DumpStack.msg", MsgSize,
        "\n--\t--\t--\nHard fault occurred at address 0x"
        \o Fmt_08x(code_address_error(frame))
        \o ".\nFind high-level "
        \o "function with\nDisassembly window or Map file\n--\t--\t--\n")

\* the two sprintf of lines 295 and 297
DumpStackTrailer(frame) ==
    Then(sprintfPrint("DumpStack.msg", MsgSize,
             "\n--\t--\t--\nHard fault occurred at address 0x"
             \o Fmt_08x(code_address_error(frame))
             \o ".\nFind high-level "),
         sprintfPrint("DumpStack.msg", MsgSize,
             "function with\nDisassembly window or Map file\n--\t--\t--\n"))

\* a slip that would print stack[r3] on the r12 line
DumpStack_R12(frame) ==
    LET reg(label, i) ==
            sprintfPrint("DumpStack.msg", MsgSize,
                         label \o Fmt_08x(Elem(frame, i)) \o "\n")
    IN  Then(reg("\nr0  = 0x", r0),
        Then(reg("r1  = 0x", r1),
        Then(reg("r2  = 0x", r2),
        Then(reg("r3  = 0x", r3),
        Then(reg("r12 = 0x", r3),
        Then(reg("lr  = 0x", lr),
        Then(reg("pc  = 0x", pc),
        Then(reg("psr = 0x", psr),
             DumpStackTrailer(frame)))))))))

DumpStack(frame) ==
    LET reg(label, i) ==
            sprintfPrint("DumpStack.msg", MsgSize,
                         label \o Fmt_08x(Elem(frame, i)) \o "\n")
    IN  Then(reg("\nr0  = 0x", r0),
        Then(reg("r1  = 0x", r1),
        Then(reg("r2  = 0x", r2),
        Then(reg("r3  = 0x", r3),
        Then(reg("r12 = 0x", r12),
        Then(reg("lr  = 0x", lr),
        Then(reg("pc  = 0x", pc),
        Then(reg("psr = 0x", psr),
             DumpStackTrailer(frame)))))))))

\* HardFaultHandlerUser: "Application specific code", empty in the source
HardFaultHandlerUser(frame) ==
    NoEffect

---------------------------------------------------------------------------
(* Inputs: register contents and fault frames at fault entry *)

HFSRValues ==
    { U32(\h4000, \h0000),      \* FORCED
      U32(\h0000, \h0002),      \* VECTTBL, not forced
      U32(\hBFFF, \hFFFF) }     \* every bit but FORCED

CFSRValues ==
    { U32(\h0000, \h0000),
      U32(\h0200, \h0000),      \* divide by zero
      U32(\h030F, \h0000),      \* the six named usage flags
      U32(\h8000, \h0000),      \* a usage bit with no name
      U32(\h0000, \h8100),      \* BFARVALID, IBUSERR
      U32(\h0000, \h1F00),      \* the five named bus flags
      U32(\h0000, \h2000),      \* a bus bit with no name
      U32(\h0000, \h0082),      \* MMARVALID, DACCVIOL
      U32(\h0000, \h001B),      \* the four named memory flags
      U32(\h0000, \h0020),      \* a memory bit with no name
      U32(\h0001, \h0201),      \* one flag in each sub-field
      U32(\hFFFF, \hFFFF) }

BFARValues ==
    { U32(\h2000, \h0010), U32(\hE00F, \hFABC) }

MMFARValues ==
    { U32(\h0000, \h0064), U32(\hFFFF, \hFFFF) }

Frames ==
    { \* pc is zero: a call through a null function pointer
      << U32(\h0000, \h0000), U32(\h0000, \h0001), U32(\h2000, \h1000),
         U32(\h0000, \h0003), U32(\h0000, \h000C), U32(\h0800, \h1234),
         U32(\h0000, \h0000), U32(\h6100, \h0000) >>,
      << U32(\hFFFF, \hFFFF), U32(\h0000, \h0064), U32(\hA567, \h65AE),
         U32(\h2020, \h0000), U32(\h0000, \h0000), U32(\hFFFF, \hFFF9),
         U32(\h0800, \h5678), U32(\h0100, \h0003) >>,
      \* pc and lr are both zero
      << U32(\h0000, \h0000), U32(\h0000, \h0000), U32(\h0000, \h0000),
         U32(\h0000, \h0000), U32(\h0000, \h0000), U32(\h0000, \h0000),
         U32(\h0000, \h0000), U32(\h0000, \h0000) >>,
      \* pc does not fit a positive int
      << U32(\h0000, \h0004), U32(\h0000, \h0000), U32(\h0000, \h0004),
         U32(\h0000, \h0001), U32(\hDEAD, \hBEEF), U32(\h0800, \h1234),
         U32(\hFFFF, \hFFFE), U32(\h8100, \h0000) >> }

Compilers ==
    { "__CC_ARM", "__ICCARM__" }

\* status bits the hardware may set in a volatile register while the report
\* is being written
HwEvents ==
    { [reg |-> "CFSR", bits |-> SCB_CFSR_IMPRECISERR],
      [reg |-> "HFSR", bits |-> HFSR_FORCED] }

---------------------------------------------------------------------------
(* The state machine *)

\* the state on entry to Hard_Fault_Handler(stack)
Init ==
    /\ line = 89
    /\ SCB \in [HFSR : HFSRValues, CFSR : CFSRValues,
                MMFAR : MMFARValues, BFAR : BFARValues]
    /\ stack \in Frames
    /\ compiler \in Compilers
    /\ trace = <<>>

\* the handler runs effect e and continues at source line next
Do(e, next) ==
    /\ line' = next
    /\ trace' = trace \o e
    /\ UNCHANGED <<SCB, stack, compiler>>

\* a slip that would test (1 << 31)
Forced_Bit31(hfsr) ==
    And(hfsr, U32(\h8000, \h0000)) # Zero

\* (hfsr & (1 << 30)) != 0
Forced(hfsr) ==
    And(hfsr, HFSR_FORCED) # Zero

\* line 89
HFH_Banner ==
    /\ line = 89
    /\ Do(printErrorMsg("Hard Fault!!!\n"), 90)

\* lines 90-91
HFH_PrintHFSR ==
    /\ line = 90
    /\ Do(Then(Read("HFSR", 90, SCB.HFSR),
               sprintfPrint("Hard_Fault_Handler.msg", MsgSize,
                            "SCB->HFSR = 0x" \o Fmt_08x(SCB.HFSR) \o "\n")),
          93)

\* line 93
HFH_TestForced ==
    /\ line = 93
    /\ Do(Read("HFSR", 93, SCB.HFSR),
          IF Forced(SCB.HFSR) THEN 94 ELSE 111)

\* lines 94-96
HFH_PrintCFSR ==
    /\ line = 94
    /\ Do(Then(printErrorMsg("Forced Hard Fault\n"),
          Then(Read("CFSR", 95, SCB.CFSR),
               sprintfPrint("Hard_Fault_Handler.msg", MsgSize,
                            "SCB->CFSR = 0x" \o Fmt_08x(SCB.CFSR) \o "\n"))),
          98)

\* line 98
HFH_GateUsage ==
    /\ line = 98
    /\ Do(Read("CFSR", 98, SCB.CFSR),
          IF And(SCB.CFSR, UsageMask) # Zero THEN 99 ELSE 102)

\* line 99
HFH_CallUsage ==
    /\ line = 99
    /\ Do(Then(Read("CFSR", 99, SCB.CFSR), printUsageErrorMsg(SCB.CFSR)),
          102)

\* line 102
HFH_GateBus ==
    /\ line = 102
    /\ Do(Read("CFSR", 102, SCB.CFSR),
          IF And(SCB.CFSR, BusMask) # Zero THEN 103 ELSE 106)

\* line 103
HFH_CallBus ==
    /\ line = 103
    /\ Do(Then(Read("CFSR", 103, SCB.CFSR),
               printBusFaultErrorMsg(SCB.CFSR, SCB.BFAR)),
          106)

\* line 106
HFH_GateMem ==
    /\ line = 106
    /\ Do(Read("CFSR", 106, SCB.CFSR),
          IF And(SCB.CFSR, MemMask) # Zero THEN 107 ELSE 111)

\* line 107
HFH_CallMem ==
    /\ line = 107
    /\ Do(Then(Read("CFSR", 107, SCB.CFSR),
               printMemoryManagementErrorMsg(SCB.CFSR, SCB.MMFAR)),
          111)

\* line 111
HFH_DumpStack ==
    /\ line = 111
    /\ Do(DumpStack(stack), 112)

\* line 112, then the BKPT of line 115 when built with IAR
HFH_User ==
    /\ line = 112
    /\ Do(HardFaultHandlerUser(stack),
          IF compiler = "__ICCARM__" THEN 115 ELSE 118)

\* line 115: BKPT #01 stops the core; an attached debugger may resume it
HFH_Bkpt ==
    /\ line = 115
    /\ Do(NoEffect, 118)

\* line 118: while (1) {}
HFH_Idle ==
    /\ line = 118
    /\ Do(NoEffect, 118)

\* the hardware sets status bits of a volatile register; the handler never
\* clears any
HwSet ==
    /\ line \in 89..107
    /\ \E e \in HwEvents :
          /\ And(SCB[e.reg], e.bits) # e.bits
          /\ SCB' = [SCB EXCEPT ![e.reg] = Or(@, e.bits)]
    /\ UNCHANGED <<line, stack, compiler, trace>>

\* the steps of the handler up to the end of the report
Report ==
    \/ HFH_Banner
    \/ HFH_PrintHFSR
    \/ HFH_TestForced
    \/ HFH_PrintCFSR
    \/ HFH_GateUsage
    \/ HFH_CallUsage
    \/ HFH_GateBus
    \/ HFH_CallBus
    \/ HFH_GateMem
    \/ HFH_CallMem
    \/ HFH_DumpStack
    \/ HFH_User

Next ==
    \/ Report
    \/ HFH_Bkpt
    \/ HFH_Idle
    \/ HwSet

Spec ==
    Init /\ [][Next]_vars

\* the processor keeps executing the handler and the sink returns from
\* every printf: no step of the report is postponed forever
FairSpec ==
    Spec /\ WF_vars(Report)

---------------------------------------------------------------------------
(* Vocabulary of the properties.  The expected texts are written from the  *)
(* bit layout (bit numbers and ranges), independently of the operators     *)
(* above.                                                                  *)

\* the messages handed to printErrorMsg so far, in order
out ==
    LET s == SelectSeq(trace, LAMBDA x : x.k = "print")
    IN  [i \in 1..Len(s) |-> s[i].msg]

\* the reads of SCB registers made so far, each with its source line and the
\* value it yielded
reads ==
    SelectSeq(trace, LAMBDA x : x.k = "read")

\* the sprintf calls made so far, each with its buffer, the size of the buffer
\* and the number of characters formatted
fmt ==
    SelectSeq(trace, LAMBDA x : x.k = "sprintf")

\* the report is complete: DumpStack has returned
Done ==
    line \in {112, 115, 118}

HasRead(ln) ==
    \E i \in DOMAIN reads : reads[i].line = ln

\* the value the read at source line ln yielded
ValAt(ln) ==
    reads[CHOOSE i \in DOMAIN reads : reads[i].line = ln].val

ReadsOf(reg) ==
    SelectSeq(reads, LAMBDA r : r.reg = reg)

\* every read of reg made so far yielded v
Stable(reg, v) ==
    \A i \in DOMAIN reads : reads[i].reg = reg => reads[i].val = v

\* the forced test of line 93 was made and saw bit 30 set / clear
SawForced ==
    HasRead(93) /\ 30 \in ValAt(93)

SawNotForced ==
    HasRead(93) /\ 30 \notin ValAt(93)

\* some bit of positions lo..hi is set in v
NonzeroIn(v, lo, hi) ==
    \E b \in lo..hi : b \in v

\* the value of hex digit i of v, from its four bits
DigitVal(v, i) ==
    CHOOSE d \in 0..15 :
        \A k \in 0..3 : ((d \div (2 ^ k)) % 2 = 1) <=> ((4 * i + k) \in v)

Hex8Lower(v) ==
    LET D(i) == LowerDigits[DigitVal(v, i) + 1]
    IN  D(7) \o D(6) \o D(5) \o D(4) \o D(3) \o D(2) \o D(1) \o D(0)

Hex8Upper(v) ==
    LET D(i) == UpperDigits[DigitVal(v, i) + 1]
    IN  D(7) \o D(6) \o D(5) \o D(4) \o D(3) \o D(2) \o D(1) \o D(0)

\* the two hex digits of the byte at bits lo..lo+7 of v
Hex2OfByte(v, lo) ==
    LET byte == {b - lo : b \in {c \in v : c >= lo /\ c <= lo + 7}}
    IN  UpperDigits[DigitVal(byte, 1) + 1] \o UpperDigits[DigitVal(byte, 0) + 1]

IsPrefix(p, m) ==
    Len(m) >= Len(p) /\ SubSeq(m, 1, Len(p)) = p

UsageHeader == "Usage fault: "
BusHeader   == "Bus fault: "
MemHeader   == "Memory Management (MPU) fault: "

Headers ==
    {UsageHeader, BusHeader, MemHeader}

\* the category headers of the report, in the order they were written
Categories ==
    SelectSeq(out, LAMBDA m : m \in Headers)

Occurs(m) ==
    \E i \in DOMAIN out : out[i] = m

FirstIdx(m) ==
    CHOOSE i \in DOMAIN out : out[i] = m /\ \A j \in 1..(i - 1) : out[j] # m

\* in a complete report: the messages of the block opened by header h, the
\* header left out (up to the next header or the register dump)
Block(h) ==
    LET i   == FirstIdx(h)
        end == CHOOSE j \in (i + 1)..(Len(out) - 9) :
                   /\ (out[j] \in Headers \/ j = Len(out) - 9)
                   /\ \A k \in (i + 1)..(j - 1) : out[k] \notin Headers
    IN  SubSeq(out, i + 1, end - 1)

\* the texts of those flags of an ordered list <<bit, text>> that are set
Reasons(list, v) ==
    LET set == SelectSeq(list, LAMBDA p : p[1] \in v)
    IN  [i \in 1..Len(set) |-> set[i][2]]

UsageReasonList ==
    << <<25, "Divide by zero\n">>,
       <<17, "Invalid combination of EPSR and instruction,\nsuch as calling a null pointer function\n">>,
       <<16, "The processor attempted to excecute an undefined instruction\n">>,
       <<18, "Attempt to load EXC_RETURN into pc illegally\n">>,
       <<19, "Attempt to use a coprocessor instruction\n">>,
       <<24, "Attempt to make an unaligned memory access\n">> >>

BusReasonList ==
    << <<8,  "Instruction bus error\n">>,
       <<9,  "Precise data bus error\n">>,
       <<10, "Imprecise data bus error\n">>,
       <<11, "Unstacking error\n">>,
       <<12, "Stacking error\n">> >>

MemReasonList ==
    << <<0, "Instruction access violation\n">>,
       <<1, "Data access violation\n">>,
       <<3, "Unstacking error\n">>,
       <<4, "Stacking error\n">> >>

BFARLine(v) ==
    "Bus Fault Address Register address valid flag\nBFAR value = 0x"
    \o Hex8Upper(v) \o "\n"

MMFARLine(v) ==
    "Memory Manage Address Register address valid flag\nMMFAR value = 0x"
    \o Hex8Upper(v) \o "\n"

IsBFARLine(m) ==
    IsPrefix("Bus Fault Address Register", m)

IsMMFARLine(m) ==
    IsPrefix("Memory Manage Address Register", m)

IsCFSRLine(m) ==
    IsPrefix("SCB->CFSR", m)

---------------------------------------------------------------------------
(* The claims *)

\* C1: in a forced report the category headers written are exactly those of
\* the sub-fields found non-zero (usage: bits 16..31, bus: bits 8..15, memory:
\* bits 0..7, named flag or not), each once, in the order usage, bus, memory:
\* those of the Fault Status Value v when its reads all yielded v, and in any
\* case those of the values the three gates read.
C1_CategoriesInOrder ==
    (Done /\ SawForced) =>
        /\ Categories =
                (IF NonzeroIn(ValAt(98), 16, 31) THEN <<UsageHeader>> ELSE <<>>)
             \o (IF NonzeroIn(ValAt(102), 8, 15) THEN <<BusHeader>> ELSE <<>>)
             \o (IF NonzeroIn(ValAt(106), 0, 7) THEN <<MemHeader>> ELSE <<>>)
        /\ Stable("CFSR", ValAt(95)) =>
               LET v == ValAt(95)
               IN  Categories =
                       (IF NonzeroIn(v, 16, 31) THEN <<UsageHeader>> ELSE <<>>)
                    \o (IF NonzeroIn(v, 8, 15) THEN <<BusHeader>> ELSE <<>>)
                    \o (IF NonzeroIn(v, 0, 7) THEN <<MemHeader>> ELSE <<>>)

\* a forced report of CFSR = 0x00010201, one flag in each sub-field (the bus
\* sub-field numerically the largest), with the three headers in order
C1_Witness ==
    /\ Done
    /\ SawForced
    /\ Stable("CFSR", U32(\h0001, \h0201))
    /\ Categories = <<UsageHeader, BusHeader, MemHeader>>

\* C3: once the forced test has seen bit 30 of the Hard Fault Status Value
\* clear, the report holds the banner and the HFSR line, and never a "Forced
\* Hard Fault" line, a CFSR line or a category header, and neither CFSR nor
\* BFAR nor MMFAR is ever read, whatever they hold.
C3_NotForcedOnlyTopLevel ==
    SawNotForced =>
        /\ Len(out) >= 2
        /\ out[1] = "Hard Fault!!!\n"
        /\ out[2] = "SCB->HFSR = 0x" \o Hex8Lower(ValAt(90)) \o "\n"
        /\ \A i \in DOMAIN out :
              /\ out[i] # "Forced Hard Fault\n"
              /\ ~IsCFSRLine(out[i])
              /\ out[i] \notin Headers
              /\ ~IsBFARLine(out[i])
              /\ ~IsMMFARLine(out[i])
        /\ \A i \in DOMAIN reads : reads[i].reg = "HFSR"
        /\ Done => Len(out) = 12

\* a complete report of a fault that was not forced, with every CFSR bit set
\* and a non-zero bus fault address
C3_Witness ==
    /\ Done
    /\ SawNotForced
    /\ SCB.CFSR = U32(\hFFFF, \hFFFF)
    /\ SCB.BFAR = U32(\h2000, \h0010)
    /\ Len(out) = 12

\* C4: in a forced report whose reads of the Fault Status Value all yielded v,
\* the BFAR line is written iff bit 15 of v is set and the MMFAR line iff bit 7
\* is set; with the flag clear the address register is not read, with the flag
\* set it is read once and the line shows the value read as 8 hex digits.  In
\* any report an address line is written, and its register read, only by a
\* category function that was handed a value with the validity flag set.
C4_AddressGated ==
    /\ Done =>
        LET bus == HasRead(103) /\ 15 \in ValAt(103)
            mem == HasRead(107) /\ 7 \in ValAt(107)
        IN  /\ SelectSeq(out, IsBFARLine) =
                   (IF bus THEN <<BFARLine(SCB.BFAR)>> ELSE <<>>)
            /\ Len(ReadsOf("BFAR")) = (IF bus THEN 1 ELSE 0)
            /\ SelectSeq(out, IsMMFARLine) =
                   (IF mem THEN <<MMFARLine(SCB.MMFAR)>> ELSE <<>>)
            /\ Len(ReadsOf("MMFAR")) = (IF mem THEN 1 ELSE 0)
    /\ (Done /\ SawForced /\ Stable("CFSR", ValAt(95))) =>
        LET v == ValAt(95)
        IN  /\ SelectSeq(out, IsBFARLine) =
                   (IF 15 \in v THEN <<BFARLine(SCB.BFAR)>> ELSE <<>>)
            /\ Len(ReadsOf("BFAR")) = (IF 15 \in v THEN 1 ELSE 0)
            /\ SelectSeq(out, IsMMFARLine) =
                   (IF 7 \in v THEN <<MMFARLine(SCB.MMFAR)>> ELSE <<>>)
            /\ Len(ReadsOf("MMFAR")) = (IF 7 \in v THEN 1 ELSE 0)
            /\ (v = U32(\h0000, \h8100) /\ SCB.BFAR = U32(\h2000, \h0010)) =>
                   /\ Occurs("Instruction bus error\n")
                   /\ Occurs("Bus Fault Address Register address valid flag\nBFAR value = 0x20000010\n")

\* the forced report of CFSR = 0x00008100 with BFAR = 0x20000010
C4_Witness ==
    /\ Done
    /\ SawForced
    /\ Stable("CFSR", U32(\h0000, \h8100))
    /\ Len(ReadsOf("BFAR")) = 1
    /\ Occurs("Bus Fault Address Register address valid flag\nBFAR value = 0x20000010\n")
    /\ Len(ReadsOf("MMFAR")) = 0

\* C2: every status register is read at most once per report, so that all
\* the values read of one register agree.
C2_ReadOnce ==
    \A reg \in {"HFSR", "CFSR"} :
        /\ Len(ReadsOf(reg)) <= 1
        /\ \A i, j \in DOMAIN reads :
              (reads[i].reg = reg /\ reads[j].reg = reg) =>
                  reads[i].val = reads[j].val

\* C5: the token written right after the "Bus fault: " header is the two hex
\* digits of the bus sub-field (bits 8..15) of the value handed to
\* printBusFaultErrorMsg.
C5_BusTokenTwoDigits ==
    \A i \in DOMAIN out :
        (out[i] = BusHeader /\ i < Len(out)) =>
            /\ Len(out[i + 1]) = 3
            /\ out[i + 1] = Hex2OfByte(ValAt(103), 8) \o "\n"

\* C6: in a forced report whose reads of the Fault Status Value all yielded a
\* non-zero v with bits in 16..31 only, the messages between the CFSR line and
\* the register dump are the "Usage fault" header followed by the texts of
\* exactly the named flags set in v, in the order divide by zero, invalid
\* state, undefined instruction, invalid exception return, coprocessor access,
\* unaligned access; no other category is written.
C6_OnlyUsage ==
    (Done /\ SawForced /\ Stable("CFSR", ValAt(95))) =>
        LET v == ValAt(95)
        IN  /\ (v # {} /\ v \subseteq 16..31) =>
                   /\ SubSeq(out, 5, Len(out) - 10) =
                          <<UsageHeader>> \o Reasons(UsageReasonList, v)
                   /\ Categories = <<UsageHeader>>
            /\ v = {25} =>
                   SubSeq(out, 5, Len(out) - 10) =
                       <<"Usage fault: ", "Divide by zero\n">>

\* a forced report of CFSR = 0x030F0000: the six sub-reasons in order
C6_Witness ==
    /\ Done
    /\ SawForced
    /\ Stable("CFSR", U32(\h030F, \h0000))
    /\ Len(out) = 21
    /\ out[6] = "Divide by zero\n"
    /\ out[11] = "Attempt to make an unaligned memory access\n"

\* C7: the address shown in the trailer is the link register word (frame
\* index 5) when the program counter word (frame index 6) is zero, and the
\* program counter word otherwise.
C7_BestGuessAddress ==
    Done =>
        LET guess == IF stack[7] = {} THEN stack[6] ELSE stack[7]
        IN  /\ out[Len(out) - 1] =
                   "\n--\t--\t--\nHard fault occurred at address 0x"
                   \o Hex8Lower(guess) \o ".\nFind high-level "
            /\ (stack[7] = {} /\ stack[6] = U32(\h0800, \h1234)) =>
                   out[Len(out) - 1] =
                       "\n--\t--\t--\nHard fault occurred at address 0x08001234.\nFind high-level "
            /\ stack[7] = U32(\h0800, \h5678) =>
                   out[Len(out) - 1] =
                       "\n--\t--\t--\nHard fault occurred at address 0x08005678.\nFind high-level "

\* a complete report of the frame with pc = 0 and lr = 0x08001234
C7_Witness ==
    /\ Done
    /\ stack[7] = {}
    /\ stack[6] = U32(\h0800, \h1234)
    /\ out[Len(out) - 1] =
           "\n--\t--\t--\nHard fault occurred at address 0x08001234.\nFind high-level "

\* the messages of a complete bus block after its token, for the value v
\* handed to printBusFaultErrorMsg and the bus fault address a
BusBlockTail(v, a) ==
    Reasons(BusReasonList, v) \o (IF 15 \in v THEN <<BFARLine(a)>> ELSE <<>>)

\* the messages of a complete memory management block, for the value v handed
\* to printMemoryManagementErrorMsg and the memory fault address a
MemBlock(v, a) ==
    <<Hex2OfByte(v, 0) \o "\n">> \o Reasons(MemReasonList, v)
    \o (IF 7 \in v THEN <<MMFARLine(a)>> ELSE <<>>)

\* C9: the sub-reasons of the bus block are the texts of the named bus flags
\* (bits 8..12) set in the value handed to printBusFaultErrorMsg, in the order
\* instruction bus error, precise, imprecise, unstacking, stacking, followed by
\* the BFAR line under bit 15; the memory management block is its token, the
\* texts of the named memory flags (bits 0, 1, 3, 4) set in the value handed to
\* printMemoryManagementErrorMsg, in the order instruction access violation,
\* data access violation, unstacking, stacking, followed by the MMFAR line
\* under bit 7.  Both are functions of the block's own sub-field alone.
C9_BlocksOwnSubfield ==
    Done =>
        /\ HasRead(103) =>
               /\ Occurs(BusHeader)
               /\ Tail(Block(BusHeader)) =
                      BusBlockTail(ValAt(103) \cap (8..15), SCB.BFAR)
        /\ HasRead(107) =>
               /\ Occurs(MemHeader)
               /\ Block(MemHeader) = MemBlock(ValAt(107) \cap (0..7), SCB.MMFAR)

\* a forced report of CFSR = 0xFFFFFFFF: every named flag of the bus and of
\* the memory block beside set bits of the other sub-fields
C9_Witness ==
    /\ Done
    /\ HasRead(103)
    /\ HasRead(107)
    /\ ValAt(103) = U32(\hFFFF, \hFFFF)
    /\ ValAt(107) = U32(\hFFFF, \hFFFF)
    /\ Len(Block(BusHeader)) = 7
    /\ Len(Block(MemHeader)) = 6

\* C10: no sprintf overruns its buffer: a message formatted into a msg buffer
\* of Hard_Fault_Handler or DumpStack takes, with its NUL, at most 80 bytes,
\* and one formatted into a str buffer of printBusFaultErrorMsg or
\* printMemoryManagementErrorMsg at most 200 bytes.
C10_NoBufferOverrun ==
    \A i \in DOMAIN fmt :
        /\ fmt[i].buf \in {"Hard_Fault_Handler.msg", "DumpStack.msg"} =>
               fmt[i].len + 1 <= 80
        /\ fmt[i].buf \in {"printBusFaultErrorMsg.str",
                           "printMemoryManagementErrorMsg.str"} =>
               fmt[i].len + 1 <= 200
        /\ fmt[i].len + 1 <= fmt[i].size

\* a complete forced report with both address lines: every sprintf of the
\* source has run (2 + 2 + 2 + 10), the longest taking 76 bytes of str
C10_Witness ==
    /\ Done
    /\ Len(fmt) = 16
    /\ \E i \in DOMAIN fmt :
          fmt[i].buf = "printMemoryManagementErrorMsg.str" /\ fmt[i].len + 1 = 76
    /\ \E i \in DOMAIN fmt : fmt[i].buf = "DumpStack.msg" /\ fmt[i].len + 1 = 70

\* the eight register lines of the frame, a blank line before r0
RegisterLines(frame) ==
    << "\nr0  = 0x" \o Hex8Lower(frame[1]) \o "\n",
       "r1  = 0x" \o Hex8Lower(frame[2]) \o "\n",
       "r2  = 0x" \o Hex8Lower(frame[3]) \o "\n",
       "r3  = 0x" \o Hex8Lower(frame[4]) \o "\n",
       "r12 = 0x" \o Hex8Lower(frame[5]) \o "\n",
       "lr  = 0x" \o Hex8Lower(frame[6]) \o "\n",
       "pc  = 0x" \o Hex8Lower(frame[7]) \o "\n",
       "psr = 0x" \o Hex8Lower(frame[8]) \o "\n" >>

\* a message of a category block: a header, a token of hex digits, a
\* sub-reason or an address line
IsBlockMessage(m) ==
    \/ m \in Headers
    \/ \E l \in {UsageReasonList, BusReasonList, MemReasonList} :
          \E i \in DOMAIN l : m = l[i][2]
    \/ IsBFARLine(m)
    \/ IsMMFARLine(m)
    \/ Len(m) \in 3..5 /\ SubSeq(m, Len(m), Len(m)) = "\n"

\* a complete report whose first two messages are the banner and the HFSR
\* line and whose last ten are the register lines and the trailer; between
\* them, in a forced report, the messages `lead` followed by messages of
\* category blocks, and nothing otherwise
ReportShape(lead) ==
    LET n == Len(out)
    IN  /\ n >= 12
        /\ out[1] = "Hard Fault!!!\n"
        /\ out[2] = "SCB->HFSR = 0x" \o Hex8Lower(ValAt(90)) \o "\n"
        /\ IF SawForced
           THEN /\ n >= 12 + Len(lead)
                /\ SubSeq(out, 3, 2 + Len(lead)) = lead
                /\ \A i \in (3 + Len(lead))..(n - 10) : IsBlockMessage(out[i])
           ELSE n = 12
        /\ SubSeq(out, n - 9, n - 2) = RegisterLines(stack)
        /\ IsPrefix("\n--\t--\t--\nHard fault occurred at address 0x", out[n - 1])
        /\ out[n] = "function with\nDisassembly window or Map file\n--\t--\t--\n"

\* once the trailer is written the handler writes nothing more and never
\* leaves its final lines (the empty user hook, the breakpoint, the idle loop)
StaysTerminal ==
    [][Done => (Done' /\ trace' = trace)]_vars

\* C8 as stated: the sink receives the banner, the HFSR line, (only if forced)
\* the CFSR line and the category blocks, the eight register lines and the
\* trailer, with nothing else in between; the trailer is eventually written
\* and the handler then stays in its terminal state.
C8_AsStated ==
    /\ [](Done =>
            ReportShape(<<"SCB->CFSR = 0x" \o Hex8Lower(ValAt(95)) \o "\n">>))
    /\ <>Done
    /\ StaysTerminal

\* C8, amended: as above, with the "Forced Hard Fault" line that a forced
\* report carries between the HFSR line and the CFSR line.
C8_ReportSequence ==
    /\ [](Done =>
            ReportShape(<<"Forced Hard Fault\n",
                          "SCB->CFSR = 0x" \o Hex8Lower(ValAt(95)) \o "\n">>))
    /\ <>Done
    /\ StaysTerminal

\* the handler idles at line 118 after a complete forced report of three
\* category blocks
C8_Witness ==
    /\ line = 118
    /\ SawForced
    /\ out[3] = "Forced Hard Fault\n"
    /\ Categories = <<UsageHeader, BusHeader, MemHeader>>
    /\ SubSeq(out, Len(out) - 9, Len(out) - 2) = RegisterLines(stack)

===========================================================================
